---- MODULE Spec2Model ----
(***************************************************************************)
(* The glow ExecutionEngine (lib/ExecutionEngine/ExecutionEngine.cpp) as a *)
(* state machine.  One action per entry point; every action runs the whole *)
(* handler.  The collaborators the engine calls (graph optimizer, lowering,*)
(* backend hooks, backend init/save/doForwardPass, Tensor copies) are      *)
(* recorded, in call order, in `log`, the trace of the most recent call.   *)
(* The assert()s of the source are active: a failed assert aborts the      *)
(* process, which is the terminal state aborted = TRUE; the memory left    *)
(* behind by the aborted call stays visible in that state.                 *)
(***************************************************************************)
EXTENDS Integers, Sequences, FiniteSets, TLC

\* ---------------------------------------------------------------- bounds
MaxVars == 2        \* Variables a Module may hold
MaxDim == 2         \* largest leading (batch) dimension of a tensor
MaxArgs == 2        \* longest vars / inputs list passed to run and runBatch
MaxIterations == 2  \* largest iteration count passed to runBatch
MaxCounter == 3     \* runBatch calls that would move the cursor past this are left out
MaxFuns == 1        \* Functions a Module may hold in the life-cycle specification
MaxPipelineFuns == 2  \* Functions a Module may hold in the pipeline specification
MaxWeights == 2     \* largest weights file and constant-weights size, in bytes
MaxImages == 2      \* most input images on the consumer's command line
MaxActivations == 1 \* largest activations size, in bytes

BackendKinds == {"Interpreter", "JIT"}
Visibilities == {"Public", "Private"}

\* ---------------------------------------------------------------- tensors
\* A tensor is its shape <<leading dimension, size of the remaining ones>>
\* and one value per slice along the leading dimension.

\* The shapes Variables are created with; a mismatch in the remaining
\* dimensions comes from the input's side.
VarShapes == {<<n, 1>> : n \in 1..MaxDim}

MkTensor(shape, data) == [dims |-> shape, data |-> data]

\* A freshly allocated tensor is zero-filled.
ZeroTensor(shape) == MkTensor(shape, [i \in 1..shape[1] |-> 0])

\* The tensors a caller passes as inputs: two contents for every shape a
\* Variable can have, and one tensor whose remaining dimensions differ.
InputTensors ==
    {MkTensor(s, [i \in 1..s[1] |-> (i + p) % 2]) : s \in VarShapes, p \in {0, 1}}
        \cup {ZeroTensor(<<1, 2>>)}

\* The datasets a caller streams with runBatch: one content for every
\* leading dimension, whose slices differ from one another, and one tensor
\* whose remaining dimensions differ.
BatchTensors ==
    {MkTensor(s, [i \in 1..s[1] |-> i % 2]) : s \in VarShapes}
        \cup {ZeroTensor(<<1, 2>>)}

\* The argument lists a caller passes for a given list of Variables: one
\* input per Variable, or a list one shorter or one longer.
InputLists(vs, tensors) ==
    [1..Len(vs) -> tensors]
        \cup {[i \in 1..(Len(vs) + 1) |-> ZeroTensor(<<1, 1>>)]}
        \cup (IF vs = <<>> THEN {} ELSE {[i \in 1..(Len(vs) - 1) |-> ZeroTensor(<<1, 1>>)]})

drop_front(dims) == Tail(dims)

\* Tensor::copyFrom: the destination takes the source's contents.
copyFrom(t, input) == [t EXCEPT !.data = input.data]

\* Tensor::copyConsecutiveSlices: fill every slice of the destination with
\* consecutive slices of the source starting at startSliceIdx, wrapping
\* around the end of the source.
copyConsecutiveSlices(t, input, startSliceIdx) ==
    [t EXCEPT !.data =
        [i \in 1..t.dims[1] |->
            input.data[((startSliceIdx + i - 1) % input.dims[1]) + 1]]]

\* ---------------------------------------------------------------- state
VARIABLES
    backendKind_,   \* ExecutionEngine::backendKind_
    M_,             \* ExecutionEngine::M_, the Module: Variables and Functions
    IR_,            \* ExecutionEngine::IR_, the IR container
    backend_,       \* ExecutionEngine::backend_, the active Backend instance
    trainCounter,   \* the function-local static of runBatch
    aborted,        \* a failed assert has ended the process
    call,           \* the most recent call and its arguments
    log,            \* the collaborator calls made by the most recent call
    consumer        \* the standalone bundle consumer, a process of its own

vars == <<backendKind_, M_, IR_, backend_, trainCounter, aborted, call, log,
          consumer>>

\* new Module(): no Variables, no Functions.
NewModule == [vars |-> <<>>, funs |-> <<>>]

\* new IRFunction(): no instructions, bound to no graph.
NewIRFunction == [G |-> 0, instrs |-> {}]

\* createBackend(kind, IR): a backend that init() has not run on.  `fresh`
\* says the instance was created after the most recent generateIR began.
createBackend(kind) == [kind |-> kind, inited |-> FALSE, fresh |-> TRUE]

\* The engine fields as one value the handlers transform.
Engine ==
    [backendKind_ |-> backendKind_, M_ |-> M_, IR_ |-> IR_,
     backend_ |-> backend_, aborted |-> aborted, log |-> log]

Commit(e) ==
    /\ backendKind_' = e.backendKind_
    /\ M_' = e.M_
    /\ IR_' = e.IR_
    /\ backend_' = e.backend_
    /\ aborted' = e.aborted
    /\ log' = e.log
    /\ UNCHANGED consumer

\* One entry of the call trace.
Ev(op) == [op |-> op, ret |-> FALSE, v |-> 0, slc |-> 0,
           inited |-> FALSE, empty |-> FALSE, fresh |-> FALSE]

Emit(e, ev) == [e EXCEPT !.log = Append(@, ev)]

\* A failed assert: the event is recorded and the process ends.
Abort(e, what) == [Emit(e, Ev(what)) EXCEPT !.aborted = TRUE]

\* ---------------------------------------------------------------- graph passes
\* A Function's graph, as far as the pipeline stages change it: whether it
\* passes verification, whether it is in lowered form, and whether the graph
\* optimizer has run since the last structural change.
NewFunction(valid) == [valid |-> valid, lowered |-> FALSE, minimal |-> FALSE]

SetFun(e, F, g) == [e EXCEPT !.M_.funs[F] = g]

\* ::glow::optimize(F, mode)
optimize(e, F) ==
    Emit(SetFun(e, F, [e.M_.funs[F] EXCEPT !.minimal = TRUE]), Ev("optimize"))

\* ::glow::lower(F, mode, backend)
lower(e, F) ==
    Emit(SetFun(e, F, [e.M_.funs[F] EXCEPT !.lowered = TRUE, !.minimal = FALSE]),
         Ev("lower"))

\* Backend::transformPreLowering / transformPostLowering: ret is the hook's
\* return value, TRUE when it changed the graph.
transform(e, F, hook, ret) ==
    Emit(IF ret THEN SetFun(e, F, [e.M_.funs[F] EXCEPT !.minimal = FALSE]) ELSE e,
         [Ev(hook) EXCEPT !.ret = ret])

\* IRFunction::clear
IRclear(ir) == [ir EXCEPT !.instrs = {}]

\* IRFunction::setGraph
setGraph(e, F) == Emit([e EXCEPT !.IR_.G = F], Ev("setGraph"))

\* IRFunction::generateIR: the instructions of the bound graph are added.
IRgenerateIR(e) ==
    Emit([e EXCEPT !.IR_.instrs = @ \cup {"fresh"}], Ev("generateIR"))

\* ::glow::optimize(IR, mode, backend)
optimizeIR(e) == Emit(e, Ev("optimizeIR"))

\* What a backend entry point finds when it is called: whether init() has
\* run on the instance, whether the IR container is empty, and whether the
\* instance and every instruction were made by the compilation under way.
BackendEv(e, op) ==
    [Ev(op) EXCEPT !.inited = e.backend_.inited,
                   !.empty = (e.IR_.instrs = {}),
                   !.fresh = (e.backend_.fresh /\ e.IR_.instrs \subseteq {"fresh"})]

\* Backend::init
backendInit(e) ==
    [Emit(e, BackendEv(e, "init")) EXCEPT !.backend_.inited = TRUE]

\* Backend::save(outputDir)
backendSave(e) == Emit(e, BackendEv(e, "save"))

\* Backend::doForwardPass
doForwardPass(e) == Emit(e, BackendEv(e, "doForwardPass"))

\* ---------------------------------------------------------------- engine
\* ExecutionEngine::ExecutionEngine(backendKind)
construct(kind) ==
    [backendKind_ |-> kind, M_ |-> NewModule, IR_ |-> NewIRFunction,
     backend_ |-> createBackend(kind), aborted |-> FALSE, log |-> <<>>]

\* A setBackend that installs the backend but does not record its kind.
setBackend_forgetsKind(e, kind) == [e EXCEPT !.backend_ = createBackend(kind)]

\* ExecutionEngine::setBackend
setBackend(e, kind) ==
    [e EXCEPT !.backendKind_ = kind, !.backend_ = createBackend(kind)]

\* reset() that leaves the IR container as it is.
reset_keepsIR(e) ==
    [e EXCEPT !.backend_ = createBackend(e.backendKind_)]

\* reset() that also replaces the Module.
reset_newModule(e) ==
    [e EXCEPT !.IR_ = IRclear(@),
              !.backend_ = createBackend(e.backendKind_),
              !.M_ = NewModule]

\* ExecutionEngine::reset
reset(e) ==
    [e EXCEPT !.IR_ = IRclear(@),
              !.backend_ = createBackend(e.backendKind_)]

\* Bookkeeping at the start of a compilation: what exists now was not made
\* by it.
BeginCompilation(e) ==
    [e EXCEPT !.IR_.instrs = IF @ = {} THEN {} ELSE {"stale"},
              !.backend_.fresh = FALSE]

\* Function::verify: an invalid graph fails an assert.
verify(e, F) ==
    IF e.M_.funs[F].valid THEN Emit(e, Ev("verify")) ELSE Abort(e, "verify")

\* generateIR that lowers only after the second graph optimization.
generateIR_lowerLate(e0, F, pre, post) ==
    LET b == BeginCompilation(e0)
        e1 == Emit(reset(b), BackendEv(b, "reset"))
        e2 == verify(e1, F)
        e3 == optimize(e2, F)
        e4 == transform(e3, F, "transformPreLowering", pre)
        e5 == IF pre THEN optimize(e4, F) ELSE e4
        e6 == optimize(e5, F)
        e7 == lower(e6, F)
        e8 == transform(e7, F, "transformPostLowering", post)
        e9 == IF post THEN optimize(e8, F) ELSE e8
        e10 == setGraph(e9, F)
        e11 == IRgenerateIR(e10)
    IN  IF e2.aborted THEN e2 ELSE optimizeIR(e11)

\* generateIR that ignores what the post-lowering hook returns.
generateIR_ignoresPost(e0, F, pre, post) ==
    LET b == BeginCompilation(e0)
        e1 == Emit(reset(b), BackendEv(b, "reset"))
        e2 == verify(e1, F)
        e3 == optimize(e2, F)
        e4 == transform(e3, F, "transformPreLowering", pre)
        e5 == IF pre THEN optimize(e4, F) ELSE e4
        e6 == lower(e5, F)
        e7 == optimize(e6, F)
        e8 == transform(e7, F, "transformPostLowering", post)
        e10 == setGraph(e8, F)
        e11 == IRgenerateIR(e10)
    IN  IF e2.aborted THEN e2 ELSE optimizeIR(e11)

\* generateIR that optimizes the graph before it verifies it.
generateIR_optimizesFirst(e0, F, pre, post) ==
    LET b == BeginCompilation(e0)
        e1 == Emit(reset(b), BackendEv(b, "reset"))
        e2 == verify(optimize(e1, F), F)
        e4 == transform(e2, F, "transformPreLowering", pre)
        e5 == IF pre THEN optimize(e4, F) ELSE e4
        e6 == lower(e5, F)
        e7 == optimize(e6, F)
        e8 == transform(e7, F, "transformPostLowering", post)
        e9 == IF post THEN optimize(e8, F) ELSE e8
        e10 == setGraph(e9, F)
        e11 == IRgenerateIR(e10)
    IN  IF e2.aborted THEN e2 ELSE optimizeIR(e11)

\* generateIR that compiles into the IR container as it finds it.
generateIR_noReset(e0, F, pre, post) ==
    LET b == BeginCompilation(e0)
        e1 == Emit(b, BackendEv(b, "reset"))
        e2 == verify(e1, F)
        e3 == optimize(e2, F)
        e4 == transform(e3, F, "transformPreLowering", pre)
        e5 == IF pre THEN optimize(e4, F) ELSE e4
        e6 == lower(e5, F)
        e7 == optimize(e6, F)
        e8 == transform(e7, F, "transformPostLowering", post)
        e9 == IF post THEN optimize(e8, F) ELSE e8
        e10 == setGraph(e9, F)
        e11 == IRgenerateIR(e10)
    IN  IF e2.aborted THEN e2 ELSE optimizeIR(e11)

\* ExecutionEngine::generateIR.  pre and post are what the two backend hooks
\* return; the CompilationMode is handed on to the stages unchanged.  The
\* "reset" entry of the trace records what reset() found.
generateIR(e0, F, pre, post) ==
    LET b == BeginCompilation(e0)
        e1 == Emit(reset(b), BackendEv(b, "reset"))
        e2 == verify(e1, F)
        e3 == optimize(e2, F)
        e4 == transform(e3, F, "transformPreLowering", pre)
        e5 == IF pre THEN optimize(e4, F) ELSE e4
        e6 == lower(e5, F)
        e7 == optimize(e6, F)
        e8 == transform(e7, F, "transformPostLowering", post)
        e9 == IF post THEN optimize(e8, F) ELSE e8
        e10 == setGraph(e9, F)
        e11 == IRgenerateIR(e10)
    IN  IF e2.aborted THEN e2 ELSE optimizeIR(e11)

\* compile that initialises the backend before the pipeline has run.
compile_initFirst(e, F, pre, post) ==
    LET g == generateIR(backendInit(e), F, pre, post)
    IN  g

\* ExecutionEngine::compile
compile(e, F, pre, post) ==
    LET g == generateIR(e, F, pre, post)
    IN  IF g.aborted THEN g ELSE backendInit(g)

\* ExecutionEngine::save
save(e, F, pre, post) ==
    LET g == generateIR(e, F, pre, post)
    IN  IF g.aborted THEN g ELSE backendSave(g)

\* loadValueFromTensor that checks the shape but copies nothing.
loadValueFromTensor_noCopy(e, v, input) ==
    LET t == e.M_.vars[v].payload
    IN  IF t.dims # input.dims
        THEN Abort(e, "abort")
        ELSE Emit(e, [Ev("copyFrom") EXCEPT !.v = v])

\* ExecutionEngine::loadValueFromTensor
loadValueFromTensor(e, v, input) ==
    LET t == e.M_.vars[v].payload
    IN  IF t.dims # input.dims
        THEN Abort(e, "abort")
        ELSE Emit([e EXCEPT !.M_.vars[v].payload = copyFrom(t, input)],
                  [Ev("copyFrom") EXCEPT !.v = v])

\* ExecutionEngine::loadValueFromTensorSlice
loadValueFromTensorSlice(e, v, input, sampleIdx) ==
    LET t == e.M_.vars[v].payload
        slc == sampleIdx % input.dims[1]
    IN  IF drop_front(t.dims) # drop_front(input.dims)
        THEN Abort(e, "abort")
        ELSE Emit([e EXCEPT !.M_.vars[v].payload =
                                copyConsecutiveSlices(t, input, slc)],
                  [Ev("copyConsecutiveSlices") EXCEPT !.v = v, !.slc = slc])

\* The loop of run without the check that the Variable is Public.
RECURSIVE updateInputs_anyVisibility(_, _, _, _)
updateInputs_anyVisibility(e, vs, ins, i) ==
    IF i > Len(vs) THEN e
    ELSE LET l == loadValueFromTensor(e, vs[i], ins[i])
         IN  IF l.aborted THEN l ELSE updateInputs_anyVisibility(l, vs, ins, i + 1)

\* The loop of ExecutionEngine::run that updates the input variables.
RECURSIVE updateInputs(_, _, _, _)
updateInputs(e, vs, ins, i) ==
    IF i > Len(vs) THEN e
    ELSE IF e.M_.vars[vs[i]].vis # "Public" THEN Abort(e, "abort")
    ELSE LET l == loadValueFromTensor(e, vs[i], ins[i])
         IN  IF l.aborted THEN l ELSE updateInputs(l, vs, ins, i + 1)

\* run without the check that the IR container holds instructions.
run_anyIR(e, vs, ins) ==
    IF Len(ins) # Len(vs) THEN Abort(e, "abort")
    ELSE LET b == updateInputs(e, vs, ins, 1)
         IN  IF b.aborted THEN b ELSE doForwardPass(b)

\* ExecutionEngine::run
run(e, vs, ins) ==
    IF Len(ins) # Len(vs) THEN Abort(e, "abort")
    ELSE IF e.IR_.instrs = {} THEN Abort(e, "abort")
    ELSE LET b == updateInputs(e, vs, ins, 1)
         IN  IF b.aborted THEN b ELSE doForwardPass(b)

\* The loop of ExecutionEngine::updateInputsAndRunNetwork.
RECURSIVE updateSlices(_, _, _, _, _)
updateSlices(e, vs, ins, sampleIdx, i) ==
    IF i > Len(vs) THEN e
    ELSE LET l == loadValueFromTensorSlice(e, vs[i], ins[i], sampleIdx)
         IN  IF l.aborted THEN l ELSE updateSlices(l, vs, ins, sampleIdx, i + 1)

\* ExecutionEngine::updateInputsAndRunNetwork
updateInputsAndRunNetwork(e, vs, ins, sampleIdx) ==
    LET b == updateSlices(e, vs, ins, sampleIdx, 1)
    IN  IF b.aborted THEN b ELSE doForwardPass(b)

\* The loop of runBatch advancing the counter by one sample per iteration.
RECURSIVE runBatchLoop_bySample(_, _, _, _, _, _, _)
runBatchLoop_bySample(e, tc, iterations, vs, ins, batchSize, i) ==
    IF i >= iterations THEN [e |-> e, tc |-> tc]
    ELSE LET u == updateInputsAndRunNetwork(e, vs, ins, tc)
         IN  IF u.aborted THEN [e |-> u, tc |-> tc]
             ELSE runBatchLoop_bySample(u, tc + 1, iterations, vs, ins,
                                        batchSize, i + 1)

\* The iteration loop of ExecutionEngine::runBatch; the result is the engine
\* together with the static counter.
RECURSIVE runBatchLoop(_, _, _, _, _, _, _)
runBatchLoop(e, tc, iterations, vs, ins, batchSize, i) ==
    IF i >= iterations THEN [e |-> e, tc |-> tc]
    ELSE LET u == updateInputsAndRunNetwork(e, vs, ins, tc)
         IN  IF u.aborted THEN [e |-> u, tc |-> tc]
             ELSE runBatchLoop(u, tc + batchSize, iterations, vs, ins,
                               batchSize, i + 1)

\* ExecutionEngine::runBatch
runBatch(e, tc, iterations, vs, ins) ==
    IF ins = <<>> THEN [e |-> Abort(e, "abort"), tc |-> tc]
    ELSE IF Len(ins) # Len(vs) THEN [e |-> Abort(e, "abort"), tc |-> tc]
    ELSE IF e.IR_.instrs = {} THEN [e |-> Abort(e, "abort"), tc |-> tc]
    ELSE runBatchLoop(e, tc, iterations, vs, ins,
                      e.M_.vars[vs[1]].payload.dims[1], 0)

\* ---------------------------------------------------------------- callers
\* Module::createVariable: a new Variable with a zero-filled payload.
createVariable(e, vis, shape) ==
    [e EXCEPT !.M_.vars = Append(@, [vis |-> vis, payload |-> ZeroTensor(shape)])]

\* Module::createFunction: a new graph, built well-formed or not.
createFunction(e, valid) ==
    [e EXCEPT !.M_.funs = Append(@, NewFunction(valid))]

\* The lists of at most n elements of S.
SeqsUpTo(S, n) == UNION {[1..m -> S] : m \in 0..n}

\* The most recent call: its entry point and the arguments it was given.
Call(op) == [op |-> op, vars |-> <<>>, inputs |-> <<>>, k |-> 0, F |-> 0,
             pre |-> FALSE, post |-> FALSE, kind |-> ""]

\* Every call starts with an empty trace.
Start == [Engine EXCEPT !.log = <<>>]

\* ------------------------------------------------- the bundle consumer
\* examples/compile_lenet_mnist/lenet_mnist_standalone.cpp: main() loads the
\* weights file, allocates the three buffers, calls the bundle's entry point
\* and reads the results.  `consumer` is that process: where main() stands
\* (pc), what it was started with (the bundle's config, the weights file, the
\* number of image files), its buffers, and `trace`, the accesses to the
\* mutable buffer and the call of the entry point in the order they happen.
\* Offsets are in bytes from the start of the mutable buffer.

DEFAULT_HEIGHT == 28
DEFAULT_WIDTH == 28
numChannels == 1
FloatBytes == 4            \* sizeof(float)
ResultsFromEnd == 40       \* results = mutableWeightVars + size - 40
NumResults == 10           \* for (i = 0; i < 10; ++i) results[i]

\* No consumer process: the engine's specifications.
NotStarted == [pc |-> "none"]

\* calloc(1, size): a zero-filled block.
calloc(size) == [i \in 1..size |-> 0]

NullBuffer == [allocated |-> FALSE, size |-> 0, zeroed |-> FALSE]

\* A weights file of the given length; its bytes are not zero.
WeightsFile(exists, length) == [exists |-> exists, bytes |-> [i \in 1..length |-> 1]]

\* The mutable sizes a bundle's config may declare: from nothing to the
\* layout the consumer assumes (two copies of the input and the results).
MutableSizes ==
    {2 * n * numChannels * DEFAULT_HEIGHT * DEFAULT_WIDTH * FloatBytes + r :
        n \in 0..MaxImages, r \in {0, ResultsFromEnd - 1, ResultsFromEnd}}

\* main() has been entered.
StartConsumer(config, file, numImages) ==
    [pc |-> "main", config |-> config, weightsFile |-> file,
     numImages |-> numImages,
     constantWeightVarsAddr |-> [allocated |-> FALSE, data |-> <<>>],
     mutableWeightVarsAddr |-> NullBuffer,
     activationsAddr |-> NullBuffer,
     freadResult |-> -1,
     trace |-> <<>>]

Access(op, lo, len) == [op |-> op, lo |-> lo, hi |-> lo + len]

\* initConstantWeights that reads the file before it checks its size.
initConstantWeights_readsFirst(p, nread) ==
    IF ~p.weightsFile.exists THEN [p EXCEPT !.pc = "exited"]
    ELSE
        LET bytes == p.weightsFile.bytes
            fileSize == Len(bytes)
            data == [i \in 1..fileSize |-> IF i <= nread THEN bytes[i] ELSE 0]
            result == IF fileSize > 0 /\ nread = fileSize THEN 1 ELSE 0
            r == [p EXCEPT !.constantWeightVarsAddr =
                               [allocated |-> TRUE, data |-> data],
                           !.freadResult = result]
        IN  IF fileSize # p.config.constantWeightVarsMemSize
            THEN [r EXCEPT !.pc = "aborted"]
            ELSE [r EXCEPT !.pc = "constants"]

\* initConstantWeights.  nread: the bytes fread delivers before it stops;
\* fread(base, fileSize, 1, f) returns 1 when it has read the one item of
\* fileSize bytes, and 0 otherwise (also for an item of 0 bytes).  A result
\* other than 1 is reported with perror and the function returns the buffer.
initConstantWeights(p, nread) ==
    IF ~p.weightsFile.exists THEN [p EXCEPT !.pc = "exited"]
    ELSE
        LET bytes == p.weightsFile.bytes
            fileSize == Len(bytes)
            a == [p EXCEPT !.constantWeightVarsAddr =
                               [allocated |-> TRUE, data |-> calloc(fileSize)]]
            data == [i \in 1..fileSize |-> IF i <= nread THEN bytes[i] ELSE 0]
            result == IF fileSize > 0 /\ nread = fileSize THEN 1 ELSE 0
        IN  IF fileSize # p.config.constantWeightVarsMemSize
            THEN [a EXCEPT !.pc = "aborted"]
            ELSE [a EXCEPT !.constantWeightVarsAddr.data = data,
                           !.freadResult = result,
                           !.pc = "constants"]

\* allocateMutableWeightVars
allocateMutableWeightVars(p) ==
    [p EXCEPT !.mutableWeightVarsAddr =
        [allocated |-> TRUE, size |-> p.config.mutableWeightVarsMemSize,
         zeroed |-> TRUE]]

\* A memory access that leaves its buffer has no defined outcome: the
\* process dies there, or goes on.
OutOfBounds(p, lo, hi) == lo < 0 \/ hi > p.mutableWeightVarsAddr.size

\* initMutableWeightVars, with loadImagesAndPreprocess.  loadSuccess: every
\* image file could be read and is DEFAULT_HEIGHT x DEFAULT_WIDTH.
initMutableWeightVars(p, loadSuccess, survives) ==
    LET a == allocateMutableWeightVars(p)
        imageDataSizeInBytes ==
            p.numImages * numChannels * DEFAULT_HEIGHT * DEFAULT_WIDTH * FloatBytes
        w1 == [a EXCEPT !.trace = Append(@, Access("memcpy", 0, imageDataSizeInBytes))]
        w2 == [w1 EXCEPT !.trace = Append(@, Access("memcpy", imageDataSizeInBytes,
                                                     imageDataSizeInBytes))]
    IN  IF p.numImages = 0 \/ ~loadSuccess THEN [a EXCEPT !.pc = "aborted"]
        ELSE IF OutOfBounds(a, 0, imageDataSizeInBytes) /\ ~survives
             THEN [w1 EXCEPT !.pc = "crashed"]
        ELSE IF OutOfBounds(a, imageDataSizeInBytes, 2 * imageDataSizeInBytes)
                /\ ~survives
             THEN [w2 EXCEPT !.pc = "crashed"]
        ELSE [w2 EXCEPT !.pc = "mutable"]

\* initActivations
initActivations(p) ==
    [p EXCEPT !.activationsAddr =
                  [allocated |-> TRUE, size |-> p.config.activationsMemSize,
                   zeroed |-> TRUE],
              !.pc = "activations"]

\* The call of the bundle's entry point, lenet_mnist(...), and its return.
callEntryPoint(p) ==
    [p EXCEPT !.trace = Append(@, Access("lenet_mnist", 0, 0)),
              !.pc = "computed"]

\* dumpInferenceResults.  The offset is computed in size_t: for a mutable
\* size below ResultsFromEnd the subtraction wraps, and the pointer it is
\* added to ends up that many bytes in front of the buffer.
dumpInferenceResults(p, survives) ==
    LET results == p.config.mutableWeightVarsMemSize - ResultsFromEnd
        r == [p EXCEPT !.trace = Append(@, Access("read", results,
                                                  NumResults * FloatBytes))]
    IN  IF OutOfBounds(p, results, results + NumResults * FloatBytes) /\ ~survives
        THEN [r EXCEPT !.pc = "crashed"]
        ELSE [r EXCEPT !.pc = "reported"]

\* The three free() calls and the return from main().
freeAll(p) == [p EXCEPT !.pc = "done"]

\* ---------------------------------------------------------------- actions
Init ==
    \E kind \in BackendKinds :
        /\ backendKind_ = kind
        /\ M_ = NewModule
        /\ IR_ = NewIRFunction
        /\ backend_ = createBackend(kind)
        /\ trainCounter = 0
        /\ aborted = FALSE
        /\ call = [Call("construct") EXCEPT !.kind = kind]
        /\ log = <<>>
        /\ consumer = NotStarted

\* The engine is destroyed and a new one constructed in the same process.
Construct ==
    /\ ~aborted
    /\ \E kind \in BackendKinds :
           /\ Commit(construct(kind))
           /\ call' = [Call("construct") EXCEPT !.kind = kind]
    /\ UNCHANGED trainCounter

\* The caller adds a Variable to a Module that holds fewer than `limit`.
CreateVariable(limit) ==
    /\ ~aborted
    /\ Len(M_.vars) < limit
    /\ \E vis \in Visibilities, shape \in VarShapes :
           Commit(createVariable(Start, vis, shape))
    /\ call' = Call("createVariable")
    /\ UNCHANGED trainCounter

\* The caller adds a Function, whose graph is well-formed or not, to a
\* Module that holds fewer than `limit`.
CreateFunction(limit, validities) ==
    /\ ~aborted
    /\ Len(M_.funs) < limit
    /\ \E valid \in validities : Commit(createFunction(Start, valid))
    /\ call' = Call("createFunction")
    /\ UNCHANGED trainCounter

SetBackend ==
    /\ ~aborted
    /\ \E kind \in BackendKinds :
           /\ Commit(setBackend(Start, kind))
           /\ call' = [Call("setBackend") EXCEPT !.kind = kind]
    /\ UNCHANGED trainCounter

\* A reset() that also rewinds the runBatch counter.
Reset_rewinds ==
    /\ ~aborted
    /\ Commit(reset(Start))
    /\ call' = Call("reset")
    /\ trainCounter' = 0

Reset ==
    /\ ~aborted
    /\ Commit(reset(Start))
    /\ call' = Call("reset")
    /\ UNCHANGED trainCounter

\* hooks: the values the backend's two transform hooks may return.
GenerateIR(hooks) ==
    /\ ~aborted
    /\ \E F \in 1..Len(M_.funs), pre \in hooks, post \in hooks :
           /\ Commit(generateIR(Start, F, pre, post))
           /\ call' = [Call("generateIR") EXCEPT !.F = F, !.pre = pre, !.post = post]
    /\ UNCHANGED trainCounter

Compile(hooks) ==
    /\ ~aborted
    /\ \E F \in 1..Len(M_.funs), pre \in hooks, post \in hooks :
           /\ Commit(compile(Start, F, pre, post))
           /\ call' = [Call("compile") EXCEPT !.F = F, !.pre = pre, !.post = post]
    /\ UNCHANGED trainCounter

Save(hooks) ==
    /\ ~aborted
    /\ \E F \in 1..Len(M_.funs), pre \in hooks, post \in hooks :
           /\ Commit(save(Start, F, pre, post))
           /\ call' = [Call("save") EXCEPT !.F = F, !.pre = pre, !.post = post]
    /\ UNCHANGED trainCounter

\* maxArgs: the longest list of Variables the caller passes.
Run(maxArgs) ==
    /\ ~aborted
    /\ \E vs \in SeqsUpTo(1..Len(M_.vars), maxArgs) :
       \E ins \in InputLists(vs, InputTensors) :
           /\ Commit(run(Start, vs, ins))
           /\ call' = [Call("run") EXCEPT !.vars = vs, !.inputs = ins]
    /\ UNCHANGED trainCounter

\* tensors: the datasets the caller streams from.
RunBatch(maxArgs, tensors) ==
    /\ ~aborted
    /\ \E k \in 0..MaxIterations, vs \in SeqsUpTo(1..Len(M_.vars), maxArgs) :
       \E ins \in InputLists(vs, tensors) :
           /\ LET r == runBatch(Start, trainCounter, k, vs, ins)
              IN  /\ r.tc <= MaxCounter
                  /\ Commit(r.e)
                  /\ trainCounter' = r.tc
           /\ call' = [Call("runBatch") EXCEPT !.vars = vs, !.inputs = ins, !.k = k]

\* The engine's whole life cycle, on a Module of at most one Variable.
Next ==
    \/ Construct
    \/ CreateVariable(1)
    \/ CreateFunction(MaxFuns, BOOLEAN)
    \/ SetBackend
    \/ Reset
    \/ GenerateIR(BOOLEAN)
    \/ Compile(BOOLEAN)
    \/ Save(BOOLEAN)
    \/ Run(1)
    \/ RunBatch(1, InputTensors)

Spec == Init /\ [][Next]_vars

\* Binding inputs with run: one engine, compiled, on a Module of up to
\* MaxVars Variables and argument lists of up to MaxArgs.
InitRun == Init /\ backendKind_ = "Interpreter"

NextRun ==
    \/ CreateVariable(MaxVars)
    \/ CreateFunction(MaxFuns, {TRUE})
    \/ Compile({FALSE})
    \/ Run(MaxArgs)

SpecRun == InitRun /\ [][NextRun]_vars

\* Streaming a dataset with runBatch, on the same Modules and lists.
NextBatch ==
    \/ CreateVariable(MaxVars)
    \/ CreateFunction(MaxFuns, {TRUE})
    \/ Compile({FALSE})
    \/ RunBatch(MaxArgs, BatchTensors)

SpecBatch == InitRun /\ [][NextBatch]_vars

\* Compiling and saving the Functions of a Module that holds up to
\* MaxPipelineFuns of them, on an engine whose backend the caller may swap.
NextPipeline ==
    \/ CreateFunction(MaxPipelineFuns, BOOLEAN)
    \/ SetBackend
    \/ Reset
    \/ GenerateIR(BOOLEAN)
    \/ Compile(BOOLEAN)
    \/ Save(BOOLEAN)

SpecPipeline == Init /\ [][NextPipeline]_vars

\* The bundle consumer: one run of main(), for every config, weights file
\* and number of images within the bounds.  No engine is involved.
engineVars == <<backendKind_, M_, IR_, backend_, trainCounter, aborted, call, log>>

BundleConfigs ==
    [constantWeightVarsMemSize : 0..MaxWeights,
     mutableWeightVarsMemSize : MutableSizes,
     activationsMemSize : 0..MaxActivations]

InitBundle ==
    /\ backendKind_ = "Interpreter"
    /\ M_ = NewModule
    /\ IR_ = NewIRFunction
    /\ backend_ = createBackend("Interpreter")
    /\ trainCounter = 0
    /\ aborted = FALSE
    /\ call = Call("none")
    /\ log = <<>>
    /\ \E config \in BundleConfigs, exists \in BOOLEAN,
          length \in 0..MaxWeights, numImages \in 0..MaxImages :
           consumer = StartConsumer(config, WeightsFile(exists, length), numImages)

InitConstantWeights ==
    /\ consumer.pc = "main"
    /\ \E nread \in 0..Len(consumer.weightsFile.bytes) :
           consumer' = initConstantWeights(consumer, nread)
    /\ UNCHANGED engineVars

InitMutableWeightVars ==
    /\ consumer.pc = "constants"
    /\ \E loadSuccess \in BOOLEAN, survives \in BOOLEAN :
           consumer' = initMutableWeightVars(consumer, loadSuccess, survives)
    /\ UNCHANGED engineVars

InitActivations ==
    /\ consumer.pc = "mutable"
    /\ consumer' = initActivations(consumer)
    /\ UNCHANGED engineVars

CallEntryPoint ==
    /\ consumer.pc = "activations"
    /\ consumer' = callEntryPoint(consumer)
    /\ UNCHANGED engineVars

DumpInferenceResults ==
    /\ consumer.pc = "computed"
    /\ \E survives \in BOOLEAN : consumer' = dumpInferenceResults(consumer, survives)
    /\ UNCHANGED engineVars

FreeAll ==
    /\ consumer.pc = "reported"
    /\ consumer' = freeAll(consumer)
    /\ UNCHANGED engineVars

NextBundle ==
    \/ InitConstantWeights
    \/ InitMutableWeightVars
    \/ InitActivations
    \/ CallEntryPoint
    \/ DumpInferenceResults
    \/ FreeAll

SpecBundle == InitBundle /\ [][NextBundle]_vars

\* ---------------------------------------------------------------- properties
Ops(l) == [i \in 1..Len(l) |-> l[i].op]

IsStage(o) == o \notin {"reset", "init", "save"}

\* The pipeline stages of the most recent call, in the order they ran.
Stages == SelectSeq(Ops(log), IsStage)

IsPipelineCall == call.op \in {"generateIR", "compile", "save"}

Hooks == {"transformPreLowering", "transformPostLowering"}

NumberOf(S) == Cardinality({i \in 1..Len(log) : log[i].op \in S})

\* The orders the pipeline may run in: the nine stages, with at most one
\* graph optimization directly after each backend hook.
PipelineOrders ==
    {<<"verify", "optimize", "transformPreLowering">> \o o1
        \o <<"lower", "optimize", "transformPostLowering">> \o o2
        \o <<"setGraph", "generateIR", "optimizeIR">> :
     o1 \in {<<>>, <<"optimize">>}, o2 \in {<<>>, <<"optimize">>}}

\* C1: every generateIR that reaches its end has run verify, optimize, the
\* pre-lowering hook, lower, optimize, the post-lowering hook, setGraph,
\* generateIR and the IR optimization in this order, with nothing else between
\* them but one optional graph optimization after each hook.
C1_StageOrder == (IsPipelineCall /\ ~aborted) => Stages \in PipelineOrders

C1_Witness ==
    /\ IsPipelineCall /\ ~aborted
    /\ call.pre /\ ~call.post
    /\ Len(Stages) = 10

\* C2: a graph optimization directly follows a backend hook exactly when the
\* hook reported a mutation, the graph optimizer runs 2 + (number of hooks
\* that reported a mutation) times, and the graph handed to IR generation has
\* been optimized since its last change.
C2_ReoptimizeIffMutated ==
    (IsPipelineCall /\ ~aborted) =>
        /\ \A i \in 1..Len(log) :
               log[i].op \in Hooks =>
                   (log[i].ret <=> (i < Len(log) /\ log[i + 1].op = "optimize"))
        /\ NumberOf({"optimize"}) =
               2 + Cardinality({i \in 1..Len(log) : log[i].op \in Hooks /\ log[i].ret})
        /\ M_.funs[call.F].minimal

C2_Witness ==
    /\ call.op = "save" /\ ~aborted
    /\ ~call.pre /\ call.post
    /\ NumberOf({"optimize"}) = 3

\* C3: the forward pass is only ever invoked on a backend instance that
\* compile has initialised.
C3_ForwardPassOnlyAfterCompile ==
    \A i \in 1..Len(log) : log[i].op = "doForwardPass" => log[i].inited

\* C4: when backend init or save is invoked, the call began with reset, the
\* backend instance and every instruction in the IR container were made by
\* this compilation, and init has not run on the instance before.
C4_NoStaleState ==
    \A i \in 1..Len(log) :
        log[i].op \in {"init", "save"} =>
            /\ log[1].op = "reset"
            /\ log[i].fresh
            /\ ~log[i].inited

\* A compile on an engine that still held an earlier compilation's IR and
\* initialised backend.
C4_Witness ==
    /\ call.op = "compile" /\ ~aborted
    /\ log[1].op = "reset" /\ log[1].inited /\ ~log[1].empty
    /\ log[Len(log)].op = "init"

\* C5: reset() empties the IR container, installs an uninitialised backend of
\* the current kind, and leaves the Module (its Variables with visibility and
\* payload, its Functions) and the backend kind as they were.
C5_ResetFrame ==
    [][call'.op = "reset" =>
          /\ M_' = M_
          /\ IR_'.instrs = {}
          /\ backend_'.kind = backendKind_ /\ ~backend_'.inited
          /\ backendKind_' = backendKind_]_vars

\* reset() has been called on an engine whose Module holds a Function and a
\* Variable with bound data.
C5_Witness ==
    /\ call.op = "reset"
    /\ M_.funs # <<>>
    /\ \E v \in 1..Len(M_.vars) : \E i \in 1..Len(M_.vars[v].payload.data) :
           M_.vars[v].payload.data[i] # 0

\* The last position at which Variable v is listed in vs.
LastIndex(vs, v) ==
    CHOOSE i \in 1..Len(vs) : vs[i] = v /\ \A j \in (i + 1)..Len(vs) : vs[j] # v

\* The contract run demands of its arguments.
Rejects(vs, ins) ==
    \/ Len(ins) # Len(vs)
    \/ \E i \in 1..Len(vs) :
           \/ M_.vars[vs[i]].vis # "Public"
           \/ M_.vars[vs[i]].payload.dims # ins[i].dims

\* C6: a run whose inputs and vars differ in number, or that names a Variable
\* that is not Public, or whose input differs in shape from its Variable,
\* fails and executes no forward pass.
C6_RunRejects ==
    (call.op = "run" /\ Rejects(call.vars, call.inputs)) =>
        (aborted /\ NumberOf({"doForwardPass"}) = 0)

\* A run on a compiled engine, with as many inputs as vars, rejected for a
\* Private Variable or a shape mismatch at its second argument.
C6_Witness ==
    /\ call.op = "run" /\ aborted
    /\ IR_.instrs # {}
    /\ Len(call.vars) = 2 /\ Len(call.inputs) = 2
    /\ ~Rejects(<<call.vars[1]>>, <<call.inputs[1]>>)
    /\ Rejects(<<call.vars[2]>>, <<call.inputs[2]>>)

\* C7: no forward pass executes while the IR container is empty; run and
\* runBatch on an engine whose IR container is empty fail with the Module
\* untouched and nothing bound.
C7_NoRunOnEmptyIR ==
    [][/\ \A i \in 1..Len(log') : log'[i].op = "doForwardPass" => ~log'[i].empty
       /\ (call'.op \in {"run", "runBatch"} /\ IR_.instrs = {}) =>
              /\ aborted'
              /\ M_' = M_
              /\ \A i \in 1..Len(log') :
                     log'[i].op \notin
                         {"copyFrom", "copyConsecutiveSlices", "doForwardPass"}]_vars

\* runBatch, with well-formed arguments, rejected on an engine that was
\* compiled and then reset.
C7_Witness ==
    /\ call.op = "runBatch" /\ aborted
    /\ IR_.instrs = {}
    /\ M_.funs # <<>> /\ M_.funs[1].lowered
    /\ call.inputs # <<>> /\ Len(call.inputs) = Len(call.vars)

\* C8 as stated: after a successful run the payload of every vars[i] holds
\* the contents of inputs[i].
C8_EveryInputBound ==
    (call.op = "run" /\ ~aborted) =>
        \A i \in 1..Len(call.vars) :
            M_.vars[call.vars[i]].payload.data = call.inputs[i].data

\* C8, amended: a successful run leaves in the payload of every Variable of
\* vars the contents of the last input listed for it (inputs[i] when vars[i]
\* is listed once), leaves every Variable not in vars as it was, binds the
\* inputs in order and then invokes the forward pass exactly once.
C8_RunBindsInputs ==
    [][(call'.op = "run" /\ ~aborted') =>
          LET vs == call'.vars
              ins == call'.inputs
          IN  /\ \A i \in 1..Len(vs) :
                     M_'.vars[vs[i]].payload.data = ins[LastIndex(vs, vs[i])].data
              /\ \A v \in 1..Len(M_.vars) :
                     (\A i \in 1..Len(vs) : vs[i] # v) => M_'.vars[v] = M_.vars[v]
              /\ Ops(log') = [i \in 1..(Len(vs) + 1) |->
                                 IF i <= Len(vs) THEN "copyFrom" ELSE "doForwardPass"]
              /\ \A i \in 1..Len(vs) : log'[i].v = vs[i]]_vars

\* A successful run that lists one Variable twice with different inputs,
\* beside a Variable it does not list and that holds bound data.
C8_Witness ==
    /\ call.op = "run" /\ ~aborted
    /\ Len(M_.vars) = 2
    /\ call.vars = <<2, 2>>
    /\ call.inputs[1] # call.inputs[2]
    /\ \E i \in 1..Len(M_.vars[1].payload.data) : M_.vars[1].payload.data[i] # 0

\* C9: a runBatch of k iterations that completes runs k forward passes and
\* moves the counter by k * batchSize, batchSize being the leading dimension
\* of vars[0]; iteration j binds to every Variable the slices of its input
\* that start at sample (c + j * batchSize) mod N, N the input's leading
\* dimension and c the counter when the call began; with k = 0 nothing runs
\* and the counter stays.
C9_BatchCursor ==
    [][(call'.op = "runBatch" /\ ~aborted') =>
          LET k == call'.k
              vs == call'.vars
              ins == call'.inputs
              n == Len(vs)
              B == M_.vars[vs[1]].payload.dims[1]
              c == trainCounter
          IN  /\ trainCounter' = c + k * B
              /\ Len(log') = k * (n + 1)
              /\ \A j \in 0..(k - 1) :
                     /\ log'[j * (n + 1) + n + 1].op = "doForwardPass"
                     /\ \A i \in 1..n :
                            LET ev == log'[j * (n + 1) + i]
                            IN  /\ ev.op = "copyConsecutiveSlices"
                                /\ ev.v = vs[i]
                                /\ ev.slc = (c + j * B) % ins[i].dims[1]
              /\ k > 0 =>
                     \A i \in 1..n :
                         i = LastIndex(vs, vs[i]) =>
                             M_'.vars[vs[i]].payload.data =
                                 [m \in 1..M_.vars[vs[i]].payload.dims[1] |->
                                     ins[i].data[((c + (k - 1) * B + m - 1)
                                                     % ins[i].dims[1]) + 1]]]_vars

\* A two-iteration runBatch whose second iteration wrapped around the end of
\* the dataset.
C9_Witness ==
    /\ call.op = "runBatch" /\ ~aborted
    /\ call.k = 2
    /\ Len(log) = 2 * (Len(call.vars) + 1)
    /\ log[1].slc > log[Len(call.vars) + 2].slc

\* C10: only runBatch changes the sample counter.
C10_CursorFrame == [][call'.op # "runBatch" => trainCounter' = trainCounter]_vars

\* The engine was destroyed and constructed anew after runBatch had advanced
\* the counter.
C10_Witness == call.op = "construct" /\ trainCounter > 0

\* C11 (first half): an engine that has just been constructed finds the
\* sample cursor at 0, so that its first runBatch starts at sample 0 whatever
\* runBatch calls earlier engine instances of the process have made.
C11_CursorPerEngine == call.op = "construct" => trainCounter = 0

\* C12: a generateIR, compile or save on a Function that fails verification
\* stops at verify (the trace of the call is reset, verify), with the Module
\* and every graph in it as before the call and the IR container empty.
C12_VerifyFailureStops ==
    [][(call'.op \in {"generateIR", "compile", "save"} /\ ~M_.funs[call'.F].valid) =>
          /\ aborted'
          /\ Ops(log') = <<"reset", "verify">>
          /\ M_' = M_
          /\ IR_'.instrs = {}]_vars

\* A save rejected at verify on an engine that held the IR of an earlier
\* compilation of another Function.
C12_Witness ==
    /\ call.op = "save" /\ aborted
    /\ ~M_.funs[call.F].valid
    /\ log[1].op = "reset" /\ ~log[1].empty /\ log[1].inited
    /\ \E G \in 1..Len(M_.funs) : G # call.F /\ M_.funs[G].lowered

\* C13: a compile that completes has run reset and the complete pipeline and
\* then backend init, once, as its last step and directly after the IR
\* optimization, and never backend save; a save that completes likewise with
\* backend save and never init; the backend instance the call ends with is
\* the one the call's only reset installed, before the hooks and lowering ran.
C13_BackendStepLast ==
    (call.op \in {"compile", "save"} /\ ~aborted) =>
        LET n == Len(log)
            own == IF call.op = "compile" THEN "init" ELSE "save"
        IN  /\ Stages \in PipelineOrders
            /\ Ops(log) = <<"reset">> \o Stages \o <<own>>
            /\ log[n - 1].op = "optimizeIR"
            /\ NumberOf({"init", "save"}) = 1
            /\ log[n].fresh /\ ~log[n].inited
            /\ backend_.fresh /\ backend_.inited = (call.op = "compile")

\* A compile, on an engine whose backend an earlier compile had initialised,
\* in which both hooks changed the graph.
C13_Witness ==
    /\ call.op = "compile" /\ ~aborted
    /\ call.pre /\ call.post
    /\ log[1].inited
    /\ log[Len(log)].op = "init"

\* C14: setBackend(kind) installs a new, uninitialised backend of the kind
\* asked for, records the kind, and leaves the Module and the IR container as
\* they were; every later call but a construction keeps the recorded kind,
\* and the backend a reset or a pipeline run installs is of that kind.
C14_SetBackendFrame ==
    [][/\ call'.op = "setBackend" =>
              /\ backend_'.kind = call'.kind /\ ~backend_'.inited
              /\ backendKind_' = call'.kind
              /\ M_' = M_
              /\ IR_' = IR_
       /\ call'.op \notin {"setBackend", "construct"} =>
              /\ backendKind_' = backendKind_
              /\ backend_'.kind = backend_.kind
       /\ call'.op \in {"reset", "generateIR", "compile", "save"} =>
              backend_'.kind = backendKind_]_vars

\* setBackend("JIT") on an engine that holds a Variable, a Function and the
\* IR of an earlier compilation.
C14_Witness ==
    /\ call.op = "setBackend" /\ call.kind = "JIT"
    /\ backend_.kind = "JIT"
    /\ IR_.instrs # {}
    /\ M_.vars # <<>> /\ M_.funs # <<>>

C19_RejectedRunFrame == [][(call'.op = "run" /\ aborted') => M_' = M_]_vars

\* C20: run and runBatch leave the payload of every Private Variable listed
\* in vars as it was before the call.
C20_PrivateNeverBound ==
    [][call'.op \in {"run", "runBatch"} =>
          \A i \in 1..Len(call'.vars) :
              M_.vars[call'.vars[i]].vis = "Private" =>
                  M_'.vars[call'.vars[i]].payload = M_.vars[call'.vars[i]].payload]_vars

\* ------------------------------------------- properties of the consumer
Invocations ==
    Cardinality({i \in 1..Len(consumer.trace) : consumer.trace[i].op = "lenet_mnist"})

\* The bytes of the weights file that are in the constant buffer.
WeightsBytesLoaded ==
    {i \in 1..Len(consumer.constantWeightVarsAddr.data) :
        consumer.constantWeightVarsAddr.data[i] # 0}

\* C15: when the weights file's length differs from the config's
\* constant-weights size, the entry point is never invoked and no byte of the
\* file is read into the constant buffer.
C15_WrongSizeRejected ==
    (/\ consumer.weightsFile.exists
     /\ Len(consumer.weightsFile.bytes) # consumer.config.constantWeightVarsMemSize) =>
        /\ Invocations = 0
        /\ WeightsBytesLoaded = {}
        /\ consumer.freadResult = -1
        /\ consumer.pc \in {"main", "aborted"}

\* main() was stopped in initConstantWeights, with the buffer allocated, on
\* a weights file of two bytes where the config says one.
C15_Witness ==
    /\ consumer.pc = "aborted"
    /\ consumer.constantWeightVarsAddr.allocated
    /\ Len(consumer.weightsFile.bytes) = 2
    /\ consumer.config.constantWeightVarsMemSize = 1

\* C17: once the entry point has been invoked, the constant buffer holds
\* exactly the bytes of the weights file (which could be opened), the
\* mutable and activations buffers were allocated zero-filled at the
\* configured sizes, both input copies precede the one call of the entry
\* point and every read of the results follows it.
C17_EntryPointProtocol ==
    consumer.pc \in {"computed", "reported", "done"} =>
        LET t == consumer.trace
            at == CHOOSE i \in 1..Len(t) : t[i].op = "lenet_mnist"
        IN  /\ consumer.weightsFile.exists
            /\ consumer.constantWeightVarsAddr.data = consumer.weightsFile.bytes
            /\ consumer.mutableWeightVarsAddr =
                   [allocated |-> TRUE, zeroed |-> TRUE,
                    size |-> consumer.config.mutableWeightVarsMemSize]
            /\ consumer.activationsAddr =
                   [allocated |-> TRUE, zeroed |-> TRUE,
                    size |-> consumer.config.activationsMemSize]
            /\ Invocations = 1
            /\ Cardinality({i \in 1..Len(t) : t[i].op = "memcpy" /\ i < at}) = 2
            /\ \A i \in 1..Len(t) : t[i].op = "read" => i > at

\* C18: every access to the mutable buffer lies inside [0, size), and the
\* offset of the results is computed without wrapping.
C18_MutableAccessInBounds ==
    /\ \A i \in 1..Len(consumer.trace) :
           consumer.trace[i].op \in {"memcpy", "read"} =>
               /\ 0 <= consumer.trace[i].lo
               /\ consumer.trace[i].hi <= consumer.mutableWeightVarsAddr.size
    /\ consumer.pc \in {"reported", "done"} =>
           consumer.config.mutableWeightVarsMemSize >= ResultsFromEnd

====
